---- MODULE Spec2Model ----
(***************************************************************************)
(* Model of scripts/common.py of the Amplitude Audio SDK: the conversion   *)
(* of a project's JSON assets to flatbuffers binaries                      *)
(* (generate_flatbuffers_binaries), its teardown                           *)
(* (clean_flatbuffers_binaries) and the helpers they use.                  *)
(*                                                                         *)
(* A path is a sequence of tokens.  A token stands for a run of characters *)
(* ("proj", "/", "sounds", ".json", ...); the tokens are chosen so that no *)
(* string the program searches for (".json", "config.json", a directory    *)
(* name, the project path) can begin or end inside a token, which makes    *)
(* matching on tokens the same as matching on characters.                  *)
(***************************************************************************)
EXTENDS Integers, Sequences, FiniteSets, TLC

VARIABLES
    path,        \* PathSpec: the argument given to processed_json_path
    mapped,      \* PathSpec: what processed_json_path returned (<<>> before the call)
    files,       \* the filesystem's regular files: path -> modification time
    dirs,        \* the filesystem's directories
    now,         \* the clock a written or touched file takes its time from
    pc,          \* "idle": no run; "build": at the head of the loops; "wait": in
                 \* process.wait(); "done": the run has ended, its outcome is known
    queue,       \* the (schema, json) pairs the running build has still to visit
    proc,        \* the argv of the compiler process being waited for (<<>>: none)
    trace,       \* one record per json the build visited
    result,      \* how the build ended: "none", "ok", "BuildError", "OSError"
    error,       \* the BuildError the build raised (NoError: none)
    since,       \* the last completed run and the files changed after it
    base,        \* the value of since when the build started
    start,       \* the sources without a target, and those newer than their
                 \* target, when the build started
    changes,     \* the number of changes the environment has made
    find_name,   \* FindSpec: the file name given to find_in_paths
    find_paths,  \* FindSpec: the list of directories given to find_in_paths
    found        \* FindSpec: what find_in_paths returned (<<>> before the call)

vars == <<path, mapped, files, dirs, now, pc, queue, proc, trace, result, error,
          since, base, start, changes, find_name, find_paths, found>>

pathVars == <<path, mapped>>
findVars == <<find_name, find_paths, found>>
runVars  == <<files, dirs, now, pc, queue, proc, trace, result, error, since, base,
              start, changes>>

-----------------------------------------------------------------------------
(* Bounds of the model.                                                    *)

\* Directory levels below the project root in the arguments of PathSpec.
MaxDepth == 2
\* Tokens of a file name before its final ".json" in the arguments of PathSpec.
MaxStem == 2
\* Source files in the project tree of Spec.
MaxFiles == 2
\* The clock stops advancing at MaxTime.
MaxTime == 1
\* The environment changes files at most MaxChanges times.
MaxChanges == 1
\* Directories in the list given to find_in_paths in FindSpec.
MaxPaths == 3

-----------------------------------------------------------------------------
(* Strings, as Python's str methods compute them.                          *)

\* s.endswith(suffix)
EndsWith(s, suffix) ==
    /\ Len(suffix) <= Len(s)
    /\ SubSeq(s, Len(s) - Len(suffix) + 1, Len(s)) = suffix

\* s.startswith(prefix)
StartsWith(s, prefix) ==
    /\ Len(prefix) <= Len(s)
    /\ SubSeq(s, 1, Len(prefix)) = prefix

\* sub in s
Contains(s, sub) ==
    \E i \in 1..(Len(s) - Len(sub) + 1) : SubSeq(s, i, i + Len(sub) - 1) = sub

\* s.replace(old, new): every non-overlapping occurrence, from the left.
RECURSIVE Replace(_, _, _)
Replace(s, old, new) ==
    IF Len(s) < Len(old) THEN s
    ELSE IF SubSeq(s, 1, Len(old)) = old
         THEN new \o Replace(SubSeq(s, Len(old) + 1, Len(s)), old, new)
         ELSE <<Head(s)>> \o Replace(Tail(s), old, new)

\* The index of the last "/" of p, 0 when p has none.
RECURSIVE LastSlash(_, _)
LastSlash(p, i) ==
    IF i = 0 THEN 0 ELSE IF p[i] = "/" THEN i ELSE LastSlash(p, i - 1)

\* os.path.dirname(p) and os.path.basename(p)
dirname(p) ==
    LET i == LastSlash(p, Len(p)) IN IF i <= 1 THEN <<>> ELSE SubSeq(p, 1, i - 1)

basename(p) == SubSeq(p, LastSlash(p, Len(p)) + 1, Len(p))

\* os.path.join(a, b) for a relative b
join(a, b) == a \o <<"/">> \o b

-----------------------------------------------------------------------------
(* The directory names and the output path of a json asset.                *)

SOUNDS_DIR_NAME            == <<"sounds">>
COLLECTIONS_DIR_NAME       == <<"collections">>
SOUNDBANKS_DIR_NAME        == <<"soundbanks">>
EVENTS_DIR_NAME            == <<"events">>
PIPELINES_DIR_NAME         == <<"pipelines">>
ATTENUATORS_DIR_NAME       == <<"attenuators">>
SWITCHES_DIR_NAME          == <<"switches">>
SWITCH_CONTAINERS_DIR_NAME == <<"switch_containers">>
RTPC_DIR_NAME              == <<"rtpc">>
EFFECTS_DIR_NAME           == <<"effects">>
ENVIRONMENTS_DIR_NAME      == <<"environments">>

\* The extension processed_json_path puts in the place of ".json".
processed_extension(p) ==
    IF EndsWith(p, <<"config", ".json">>) THEN <<".amconfig">>
    ELSE IF EndsWith(p, <<"buses", ".json">>) THEN <<".ambus">>
    ELSE IF Contains(p, SOUNDBANKS_DIR_NAME) THEN <<".ambank">>
    ELSE IF Contains(p, COLLECTIONS_DIR_NAME) THEN <<".amcollection">>
    ELSE IF Contains(p, EVENTS_DIR_NAME) THEN <<".amevent">>
    ELSE IF Contains(p, PIPELINES_DIR_NAME) THEN <<".ampipeline">>
    ELSE IF Contains(p, ATTENUATORS_DIR_NAME) THEN <<".amattenuation">>
    ELSE IF Contains(p, SWITCHES_DIR_NAME) THEN <<".amswitch">>
    ELSE IF Contains(p, SWITCH_CONTAINERS_DIR_NAME) THEN <<".amswitchcontainer">>
    ELSE IF Contains(p, RTPC_DIR_NAME) THEN <<".amrtpc">>
    ELSE IF Contains(p, SOUNDS_DIR_NAME) THEN <<".amsound">>
    ELSE IF Contains(p, ENVIRONMENTS_DIR_NAME) THEN <<".amenv">>
    ELSE <<".ambin">>

processed_json_path(p, input_path, output_path) ==
    Replace(Replace(p, <<".json">>, processed_extension(p)), input_path, output_path)

-----------------------------------------------------------------------------
(* The command line options of one run (CommandOptions).                   *)

project_path == <<"proj">>
build_path   == <<"out">>
flatc_path   == <<"flatc">>
schema_path  == <<"schemas">>

-----------------------------------------------------------------------------
(* The filesystem.  fs is a function from the paths of the regular files   *)
(* to their modification times, ds the set of directories.                 *)

\* os.path.isfile(p)
isfile(fs, p) == p \in DOMAIN fs

\* os.path.exists(p)
exists(fs, ds, p) == p \in DOMAIN fs \/ p \in ds

\* A file written (created or overwritten) at time t.
WriteFile(fs, p, t) == [q \in DOMAIN fs \cup {p} |-> IF q = p THEN t ELSE fs[q]]

\* os.remove(p)
RemoveFile(fs, p) == [q \in DOMAIN fs \ {p} |-> fs[q]]

\* os.mkdir(d) in the place of os.makedirs(d): the last directory alone.
mkdir(ds, d) == ds \cup {d}

\* os.makedirs(d): d and every missing directory above it.
RECURSIVE makedirs(_, _)
makedirs(ds, d) ==
    IF d = <<>> THEN ds ELSE makedirs(ds \cup {d}, dirname(d))

-----------------------------------------------------------------------------
(* glob.glob.  A name that begins with a dot is hidden: no "*" and no "**" *)
(* matches it.  glob lists a directory in the order the operating system   *)
(* gives; the model fixes one order, that of SourceOrder.                  *)

DotTokens == {".", ".json", ".amconfig", ".ambus", ".ambank", ".amcollection",
              ".amevent", ".ampipeline", ".amattenuation", ".amswitch",
              ".amswitchcontainer", ".amrtpc", ".amsound", ".amenv", ".ambin"}

\* No component of the relative path rel is hidden or empty.
RECURSIVE Visible(_)
Visible(rel) ==
    IF rel = <<>> THEN FALSE
    ELSE LET i == LastSlash(rel, Len(rel)) IN
         /\ i < Len(rel)
         /\ rel[i + 1] \notin DotTokens
         /\ (i = 0 \/ Visible(SubSeq(rel, 1, i - 1)))

\* p matches os.path.join(project_path, '*' + suffix) with suffix .config.json
\* or .buses.json: a file of the project directory itself.
MatchTop(p, suffix) ==
    /\ StartsWith(p, project_path \o <<"/">>)
    /\ LET name == SubSeq(p, Len(project_path) + 2, Len(p)) IN
       /\ LastSlash(name, Len(name)) = 0
       /\ EndsWith(name, suffix)
       /\ name[1] \notin DotTokens

\* p matches os.path.join(project_path, dir_name, '**/*.json'), recursive.
MatchRecursive(p, dir_name) ==
    LET prefix == project_path \o <<"/">> \o dir_name \o <<"/">> IN
    /\ StartsWith(p, prefix)
    /\ EndsWith(p, <<".json">>)
    /\ Visible(SubSeq(p, Len(prefix) + 1, Len(p)))

\* The source files the model's project trees are made of, in the order glob
\* lists them.
SourceOrder ==
    << <<"proj", "/", "x", ".", "config", ".json">>,
       <<"proj", "/", "sounds", "/", "x", ".json">>,
       <<"proj", "/", "sounds", "/", "proj", ".json">>,
       <<"proj", "/", "environments", "/", "x", ".json">> >>

SourcePool == {SourceOrder[i] : i \in 1..Len(SourceOrder)}

RECURSIVE SetToSeq(_)
SetToSeq(S) ==
    IF S = {} THEN <<>>
    ELSE LET x == CHOOSE y \in S : TRUE IN <<x>> \o SetToSeq(S \ {x})

\* The files of fs below the project directory, which are those a pattern
\* that begins with project_path can match, in the order a directory scan
\* meets them.
Listing(fs) ==
    SelectSeq(SourceOrder, LAMBDA p : isfile(fs, p))
    \o SetToSeq({p \in DOMAIN fs \ SourcePool : StartsWith(p, project_path \o <<"/">>)})

globTop(fs, suffix) == SelectSeq(Listing(fs), LAMBDA p : MatchTop(p, suffix))

globRecursive(fs, dir_name) ==
    SelectSeq(Listing(fs), LAMBDA p : MatchRecursive(p, dir_name))

-----------------------------------------------------------------------------
(* find_in_paths and get_conversion_data.                                  *)

\* find_in_paths that keeps scanning after a hit and returns the last one.
RECURSIVE find_in_paths_last(_, _, _)
find_in_paths_last(fs, name, paths) ==
    IF paths = <<>> THEN name
    ELSE LET full_path == join(paths[Len(paths)], name) IN
         IF isfile(fs, full_path) THEN full_path
         ELSE find_in_paths_last(fs, name, SubSeq(paths, 1, Len(paths) - 1))

RECURSIVE find_in_paths(_, _, _)
find_in_paths(fs, name, paths) ==
    IF paths = <<>> THEN name
    ELSE LET full_path == join(Head(paths), name) IN
         IF isfile(fs, full_path) THEN full_path
         ELSE find_in_paths(fs, name, Tail(paths))

FlatbuffersConversionData(schema, input_files) ==
    [schema |-> schema, input_files |-> input_files]

get_conversion_data(fs, schema_paths) ==
    << FlatbuffersConversionData(
           find_in_paths(fs, <<"engine_config_definition.bfbs">>, schema_paths),
           globTop(fs, <<".", "config", ".json">>)),
       FlatbuffersConversionData(
           find_in_paths(fs, <<"buses_definition.bfbs">>, schema_paths),
           globTop(fs, <<".", "buses", ".json">>)),
       FlatbuffersConversionData(
           find_in_paths(fs, <<"sound_bank_definition.bfbs">>, schema_paths),
           globRecursive(fs, SOUNDBANKS_DIR_NAME)),
       FlatbuffersConversionData(
           find_in_paths(fs, <<"collection_definition.bfbs">>, schema_paths),
           globRecursive(fs, COLLECTIONS_DIR_NAME)),
       FlatbuffersConversionData(
           find_in_paths(fs, <<"sound_definition.bfbs">>, schema_paths),
           globRecursive(fs, SOUNDS_DIR_NAME)),
       FlatbuffersConversionData(
           find_in_paths(fs, <<"event_definition.bfbs">>, schema_paths),
           globRecursive(fs, EVENTS_DIR_NAME)),
       FlatbuffersConversionData(
           find_in_paths(fs, <<"pipeline_definition.bfbs">>, schema_paths),
           globRecursive(fs, PIPELINES_DIR_NAME)),
       FlatbuffersConversionData(
           find_in_paths(fs, <<"attenuation_definition.bfbs">>, schema_paths),
           globRecursive(fs, ATTENUATORS_DIR_NAME)),
       FlatbuffersConversionData(
           find_in_paths(fs, <<"switch_definition.bfbs">>, schema_paths),
           globRecursive(fs, SWITCHES_DIR_NAME)),
       FlatbuffersConversionData(
           find_in_paths(fs, <<"switch_container_definition.bfbs">>, schema_paths),
           globRecursive(fs, SWITCH_CONTAINERS_DIR_NAME)),
       FlatbuffersConversionData(
           find_in_paths(fs, <<"rtpc_definition.bfbs">>, schema_paths),
           globRecursive(fs, RTPC_DIR_NAME)),
       FlatbuffersConversionData(
           find_in_paths(fs, <<"effect_definition.bfbs">>, schema_paths),
           globRecursive(fs, EFFECTS_DIR_NAME)) >>

\* The loops taken from the last category to the first.
RECURSIVE Units_reversed(_)
Units_reversed(conversion_data) ==
    IF conversion_data = <<>> THEN <<>>
    ELSE LET element == conversion_data[Len(conversion_data)] IN
         [i \in 1..Len(element.input_files) |->
             [schema |-> element.schema, json |-> element.input_files[i]]]
         \o Units_reversed(SubSeq(conversion_data, 1, Len(conversion_data) - 1))

\* The two nested loops over conversion_data, as the sequence of the
\* (schema, json) pairs they visit.
RECURSIVE Units(_)
Units(conversion_data) ==
    IF conversion_data = <<>> THEN <<>>
    ELSE LET element == Head(conversion_data) IN
         [i \in 1..Len(element.input_files) |->
             [schema |-> element.schema, json |-> element.input_files[i]]]
         \o Units(Tail(conversion_data))

\* p is a file get_conversion_data lists when it exists.
Enumerated(p) ==
    LET conversion_data == get_conversion_data(p :> 0, <<>>) IN
    \E i \in 1..Len(conversion_data) : conversion_data[i].input_files # <<>>

-----------------------------------------------------------------------------
(* PathSpec: processed_json_path applied to every path of a bounded set    *)
(* that get_conversion_data can list.                                      *)

DirTokens == {"soundbanks", "collections", "sounds", "events", "pipelines",
              "attenuators", "switches", "switch_containers", "rtpc", "effects",
              "environments", "proj"}

StemTokens == {"x", "proj", "config", "buses", ".json"}

\* The chains of n directories, each followed by "/".
RECURSIVE DirChains(_)
DirChains(n) ==
    IF n = 0 THEN {<<>>}
    ELSE {c \o <<d, "/">> : c \in DirChains(n - 1), d \in DirTokens}

\* The sequences of n tokens of a file name.
RECURSIVE Stems(_)
Stems(n) ==
    IF n = 0 THEN {<<>>}
    ELSE {s \o <<t>> : s \in Stems(n - 1), t \in StemTokens}

\* The paths of json files with up to depth directories and up to stem tokens
\* of name, and the names x.config.json and x.buses.json in the project
\* directory.
CandidatePaths(depth, stem) ==
    {project_path \o <<"/">> \o c \o s \o <<".json">> :
        c \in UNION {DirChains(n) : n \in 1..depth},
        s \in UNION {Stems(n) : n \in 1..stem}}
    \cup
    {project_path \o <<"/">> \o s \o <<".", k, ".json">> :
        s \in UNION {Stems(n) : n \in 1..stem}, k \in {"config", "buses"}}

EnumeratedPaths(depth, stem) == {p \in CandidatePaths(depth, stem) : Enumerated(p)}

-----------------------------------------------------------------------------
(* needs_rebuild, the external compiler and the errors.                    *)

\* needs_rebuild with ">=" in the place of ">".
needs_rebuild_on_tie(fs, source, target) ==
    \/ ~isfile(fs, target)
    \/ (isfile(fs, source) /\ fs[source] >= fs[target])

\* needs_rebuild(source, target) returns True.
needs_rebuild(fs, source, target) ==
    \/ ~isfile(fs, target)
    \/ (isfile(fs, source) /\ fs[source] > fs[target])

\* needs_rebuild(source, target) raises: os.path.getmtime(source) finds no file.
needs_rebuild_raises(fs, source, target) ==
    isfile(fs, target) /\ ~isfile(fs, source)

\* Line 267: what the loop body does with one json, "convert", "skip" or
\* "raise".  The right operand of "or" is evaluated only when the left is False.
rebuild_decision(fs, json, schema, target) ==
    IF needs_rebuild(fs, json, target) THEN "convert"
    ELSE IF needs_rebuild_raises(fs, schema, target) THEN "raise"
    ELSE IF needs_rebuild(fs, schema, target) THEN "convert"
    ELSE "skip"

\* The argv convert_json_to_flatbuffers_binary hands to run_subprocess.
compiler_argv(flatc, json, schema, out_dir, schema_dir) ==
    <<flatc, <<"-o">>, out_dir, <<"-I">>, schema_dir, <<"-b">>, schema, json>>

\* A compiler that writes its output over the data file it was given.
artifact_in_place(out_dir, json) == json

\* The file the compiler writes: in the output directory it is given, named
\* after the base name of the data file with its last extension replaced.  The
\* compiler takes the extension from the schema; the model takes the schema
\* to declare the extension processed_json_path expects for this data file.
artifact_path(out_dir, json) ==
    LET name == basename(json) IN
    out_dir \o <<"/">> \o SubSeq(name, 1, Len(name) - 1) \o processed_extension(json)

\* The exit statuses of the compiler process.
ExitCodes == {0, 1, 2}

\* str(e) of the OSError subprocess.Popen raises.
OSErrorMessage == "[Errno 2] No such file or directory"

NoError == [type |-> "none", argv |-> <<>>, error_code |-> 0, message |-> ""]

\* BuildError.__init__; "" stands for a message of None as well.
BuildError(argv, error_code, message) ==
    [type |-> "BuildError", argv |-> argv, error_code |-> error_code,
     message |-> message]

\* "if process.returncode == 1:" in the place of "if process.returncode:".
returncode_is_one(returncode) == returncode = 1

\* Line 158: "if process.returncode:".
returncode_is_failure(returncode) == returncode # 0

\* run_subprocess, when subprocess.Popen raises OSError.
launch_failure(argv) == BuildError(argv, 1, OSErrorMessage)

\* BuildError(argv, 1) in the place of BuildError(argv, process.returncode).
exit_failure_one(argv, returncode) == BuildError(argv, 1, "")

\* run_subprocess, when the process has exited with a returncode that is true.
exit_failure(argv, returncode) == BuildError(argv, returncode, "")

-----------------------------------------------------------------------------
(* clean_flatbuffers_binaries, as one pass over the pairs.                 *)

\* "os.remove(json)" in the place of "os.remove(path)".
clean_source(json) == json

\* Lines 324-326: the file clean removes for one json.
clean_target(json) == processed_json_path(json, project_path, build_path)

RECURSIVE clean_all(_, _)
clean_all(fs, units) ==
    IF units = <<>> THEN fs
    ELSE LET p == clean_target(Head(units).json) IN
         clean_all(IF isfile(fs, p) THEN RemoveFile(fs, p) ELSE fs, Tail(units))

-----------------------------------------------------------------------------
(* The initial states.                                                     *)

SchemaNames == {<<"engine_config_definition.bfbs">>, <<"buses_definition.bfbs">>,
                <<"sound_bank_definition.bfbs">>, <<"collection_definition.bfbs">>,
                <<"sound_definition.bfbs">>, <<"event_definition.bfbs">>,
                <<"pipeline_definition.bfbs">>, <<"attenuation_definition.bfbs">>,
                <<"switch_definition.bfbs">>, <<"switch_container_definition.bfbs">>,
                <<"rtpc_definition.bfbs">>, <<"effect_definition.bfbs">>}

SchemaFiles == {join(schema_path, n) : n \in SchemaNames}

\* The schema file the environment touches or removes: that of the first
\* category, so that a project can hold files of a later category.
SchemaInputs == {join(schema_path, <<"engine_config_definition.bfbs">>)}

NoRun == [op |-> "none", tree |-> {}, removed |-> {}, changed |-> {}]

NoStart == [absent |-> {}, newer |-> {}]

\* The source files of the project that exist.
Sources(fs) == {p \in SourcePool : isfile(fs, p)}

\* A project of up to MaxFiles source files and every schema, all written at
\* time 0, and an empty build directory.
InitRun(tree) ==
    /\ files = [p \in tree \cup SchemaFiles |-> 0]
    /\ dirs = UNION {makedirs({}, dirname(p)) : p \in tree \cup SchemaFiles}
    /\ now = 0
    /\ pc = "idle"
    /\ queue = <<>>
    /\ proc = <<>>
    /\ trace = <<>>
    /\ result = "none"
    /\ error = NoError
    /\ since = NoRun
    /\ base = NoRun
    /\ start = NoStart
    /\ changes = 0

\* No call of find_in_paths on its own.
NoFind ==
    /\ find_name = <<>>
    /\ find_paths = <<>>
    /\ found = <<>>

Init ==
    /\ path = <<>>
    /\ mapped = <<>>
    /\ NoFind
    /\ \E tree \in SUBSET SourcePool :
          /\ 1 <= Cardinality(tree)
          /\ Cardinality(tree) <= MaxFiles
          /\ InitRun(tree)

-----------------------------------------------------------------------------
(* generate_flatbuffers_binaries.                                          *)

\* Lines 255-258: the options are read and the conversion data is collected.
BuildStart ==
    /\ pc = "idle"
    /\ pc' = "build"
    /\ queue' = Units(get_conversion_data(files, <<schema_path>>))
    /\ base' = since
    /\ start' =
          LET target(p) == processed_json_path(p, project_path, build_path) IN
          [absent |-> {p \in Sources(files) : ~isfile(files, target(p))},
           newer  |-> {p \in Sources(files) :
                          isfile(files, target(p)) /\ files[p] > files[target(p)]}]
    /\ UNCHANGED <<files, dirs, now, proc, trace, result, error, since, changes,
                   pathVars, findVars>>

\* What the build observed of one json when it reached it.
Visit(u, target, how) ==
    [json |-> u.json, schema |-> u.schema, target |-> target,
     src |-> files[u.json],
     tgt |-> IF isfile(files, target) THEN files[target] ELSE -1,
     sch |-> IF isfile(files, u.schema) THEN files[u.schema] ELSE -1,
     outcome |-> how, returncode |-> -1]

\* The build ends in an exception.
Abort(kind, err) ==
    /\ pc' = "done"
    /\ queue' = <<>>
    /\ proc' = <<>>
    /\ result' = kind
    /\ error' = err
    /\ since' = [op |-> "build_err", tree |-> Sources(files), removed |-> {},
                  changed |-> {}]

\* Lines 262-268, up to subprocess.Popen: one turn of the inner loop.
BuildUnit ==
    /\ pc = "build"
    /\ queue # <<>>
    /\ LET u == Head(queue)
           target == processed_json_path(u.json, project_path, build_path)
           target_file_dir == dirname(target)
           decision == rebuild_decision(files, u.json, u.schema, target)
           argv == compiler_argv(flatc_path, u.json, u.schema, target_file_dir,
                                 schema_path)
       IN
       /\ dirs' = IF exists(files, dirs, target_file_dir) THEN dirs
                  ELSE makedirs(dirs, target_file_dir)
       /\ files' = files
       /\ \/ /\ decision = "skip"
             /\ trace' = Append(trace, Visit(u, target, "fresh"))
             /\ queue' = Tail(queue)
             /\ UNCHANGED <<pc, proc, result, error, since>>
          \/ /\ decision = "raise"
             /\ trace' = Append(trace, Visit(u, target, "raised"))
             /\ Abort("OSError", NoError)
          \/ /\ decision = "convert"
             /\ \/ /\ trace' = Append(trace, Visit(u, target, "running"))
                   /\ pc' = "wait"
                   /\ proc' = argv
                   /\ UNCHANGED <<queue, result, error, since>>
                \/ /\ trace' = Append(trace, Visit(u, target, "launch_failed"))
                   /\ Abort("BuildError", launch_failure(argv))
    /\ UNCHANGED <<now, base, start, changes, pathVars, findVars>>

\* The entry of trace for the process that has exited.
Exited(returncode) ==
    [trace EXCEPT ![Len(trace)].outcome = "exited",
                  ![Len(trace)].returncode = returncode]

\* Lines 157-160: process.wait() returns.  A compiler that run_subprocess takes
\* to have succeeded has written its artifact, which it cannot do without the
\* schema.
CompilerExit ==
    /\ pc = "wait"
    /\ \E returncode \in ExitCodes :
          /\ trace' = Exited(returncode)
          /\ IF ~returncode_is_failure(returncode)
             THEN /\ isfile(files, proc[7])
                  /\ files' = WriteFile(files, artifact_path(proc[3], proc[8]), now)
                  /\ pc' = "build"
                  /\ queue' = Tail(queue)
                  /\ proc' = <<>>
                  /\ UNCHANGED <<result, error, since>>
             ELSE /\ files' = files
                  /\ Abort("BuildError", exit_failure(proc, returncode))
    /\ UNCHANGED <<dirs, now, base, start, changes, pathVars, findVars>>

\* The loops are over: generate_flatbuffers_binaries returns.
BuildDone ==
    /\ pc = "build"
    /\ queue = <<>>
    /\ pc' = "done"
    /\ result' = "ok"
    /\ since' = [op |-> "build_ok", tree |-> Sources(files), removed |-> {},
                  changed |-> {}]
    /\ UNCHANGED <<files, dirs, now, queue, proc, trace, error, base, start,
                   changes, pathVars, findVars>>

\* The script's process ends and its outcome with it.
Exit ==
    /\ pc = "done"
    /\ pc' = "idle"
    /\ trace' = <<>>
    /\ result' = "none"
    /\ error' = NoError
    /\ base' = NoRun
    /\ start' = NoStart
    /\ UNCHANGED <<files, dirs, now, queue, proc, since, changes, pathVars, findVars>>

-----------------------------------------------------------------------------
(* clean_flatbuffers_binaries.                                             *)

Clean ==
    /\ pc = "idle"
    /\ files' = clean_all(files, Units(get_conversion_data(files, <<schema_path>>)))
    /\ since' = [op |-> "clean", tree |-> Sources(files),
                  removed |-> DOMAIN files \ DOMAIN files', changed |-> {}]
    /\ UNCHANGED <<dirs, now, pc, queue, proc, trace, result, error, base, start,
                   changes, pathVars, findVars>>

-----------------------------------------------------------------------------
(* The environment, between two runs: time passes, the user edits a source *)
(* or a schema file, a schema file is removed.                             *)

Tick ==
    /\ pc = "idle"
    /\ now < MaxTime
    /\ now' = now + 1
    /\ UNCHANGED <<files, dirs, pc, queue, proc, trace, result, error, since, base,
                   start, changes, pathVars, findVars>>

\* The environment has changed the file p.
Changed(p) ==
    /\ changes < MaxChanges
    /\ changes' = changes + 1
    /\ since' = [since EXCEPT !.changed = @ \cup {p}]

Touch(p) ==
    /\ pc = "idle"
    /\ isfile(files, p)
    /\ files[p] < now
    /\ files' = WriteFile(files, p, now)
    /\ Changed(p)
    /\ UNCHANGED <<dirs, now, pc, queue, proc, trace, result, error, base, start,
                   pathVars, findVars>>

TouchSource == \E p \in SourcePool : Touch(p)

TouchSchema == \E p \in SchemaInputs : Touch(p)

RemoveSchema ==
    /\ pc = "idle"
    /\ \E p \in SchemaInputs :
          /\ isfile(files, p)
          /\ files' = RemoveFile(files, p)
          /\ Changed(p)
    /\ UNCHANGED <<dirs, now, pc, queue, proc, trace, result, error, base, start,
                   pathVars, findVars>>

Next ==
    \/ BuildStart
    \/ BuildUnit
    \/ CompilerExit
    \/ BuildDone
    \/ Exit
    \/ Clean
    \/ Tick
    \/ TouchSource
    \/ TouchSchema
    \/ RemoveSchema

Spec == Init /\ [][Next]_vars

-----------------------------------------------------------------------------
(* PathSpec: the path mapping alone.                                       *)

InitPath ==
    /\ path \in EnumeratedPaths(MaxDepth, MaxStem)
    /\ mapped = <<>>
    /\ NoFind
    /\ InitRun({})

\* Lines 263 and 324: the target of a listed json.
MapPath ==
    /\ mapped = <<>>
    /\ mapped' = processed_json_path(path, project_path, build_path)
    /\ UNCHANGED <<path, runVars, findVars>>

NextPath == MapPath

PathSpec == InitPath /\ [][NextPath]_vars

-----------------------------------------------------------------------------
(* TreeSpec: one build of a project of one or two json files that lie up   *)
(* to MaxDepth directories deep in the project, in an empty build          *)
(* directory.                                                              *)

TreeDirTokens == {"sounds", "events", "collections"}

TreeStemTokens == {"x", "proj", "out"}

RECURSIVE TreeChains(_)
TreeChains(n) ==
    IF n = 0 THEN {<<>>}
    ELSE {c \o <<d, "/">> : c \in TreeChains(n - 1), d \in TreeDirTokens}

TreePaths(depth) ==
    {project_path \o <<"/">> \o c \o <<t, ".json">> :
        c \in UNION {TreeChains(n) : n \in 1..depth}, t \in TreeStemTokens}

InitTree ==
    /\ path = <<>>
    /\ mapped = <<>>
    /\ NoFind
    /\ \E p, q \in TreePaths(MaxDepth) : InitRun({p, q})

NextTree ==
    \/ BuildStart
    \/ BuildUnit
    \/ CompilerExit
    \/ BuildDone

TreeSpec == InitTree /\ [][NextTree]_vars

-----------------------------------------------------------------------------
(* FindSpec: find_in_paths alone, on a file name, a list of directories    *)
(* and a filesystem in which name is, in each directory, a regular file, a *)
(* directory or missing.                                                   *)

FindNames == {<<"sound_definition.bfbs">>, <<"flatc">>}

FindDirs == {<<"schemas">>, <<"sdk", "/", "schemas">>, <<"proj">>}

\* The lists of up to n directories, repetitions included.
RECURSIVE PathLists(_)
PathLists(n) ==
    IF n = 0 THEN {<<>>}
    ELSE PathLists(n - 1)
         \cup {Append(l, d) : l \in {k \in PathLists(n - 1) : Len(k) = n - 1},
                              d \in FindDirs}

InitFind ==
    /\ path = <<>>
    /\ mapped = <<>>
    /\ find_name \in FindNames
    /\ find_paths \in PathLists(MaxPaths)
    /\ found = <<>>
    /\ \E kind \in [FindDirs -> {"missing", "file", "directory"}] :
          /\ files = [p \in {join(d, find_name) : d \in {e \in FindDirs : kind[e] = "file"}}
                         |-> 0]
          /\ dirs = UNION {makedirs({}, d) : d \in FindDirs}
                    \cup {join(d, find_name) : d \in {e \in FindDirs : kind[e] = "directory"}}
    /\ now = 0
    /\ pc = "idle"
    /\ queue = <<>>
    /\ proc = <<>>
    /\ trace = <<>>
    /\ result = "none"
    /\ error = NoError
    /\ since = NoRun
    /\ base = NoRun
    /\ start = NoStart
    /\ changes = 0

\* Lines 288-293: one call of find_in_paths.
FindInPaths ==
    /\ found = <<>>
    /\ found' = find_in_paths(files, find_name, find_paths)
    /\ UNCHANGED <<find_name, find_paths, pathVars, runVars>>

NextFind == FindInPaths

FindSpec == InitFind /\ [][NextFind]_vars

-----------------------------------------------------------------------------
(* The claims.                                                             *)

\* The build handed the json of the entry e of trace to the compiler.
Invoked(e) == e.outcome \in {"running", "exited", "launch_failed"}

\* The compiler invocation of the entry e of trace failed.
Failed(e) ==
    \/ e.outcome = "launch_failed"
    \/ (e.outcome = "exited" /\ e.returncode # 0)

\* The jsons the build has visited, and those it handed to the compiler.
Visited == {trace[i].json : i \in 1..Len(trace)}

Invocations(p) == Cardinality({i \in 1..Len(trace) : Invoked(trace[i]) /\ trace[i].json = p})

\* C1: a build hands a json it reaches to the compiler if and only if, at that
\* moment, the target is missing or its modification time is strictly less
\* than that of the json or of the schema file; on a tie nothing is invoked.
C1_InvokedIffStale ==
    \A i \in 1..Len(trace) :
        Invoked(trace[i]) <=>
            \/ trace[i].tgt = -1
            \/ trace[i].tgt < trace[i].src
            \/ trace[i].tgt < trace[i].sch

\* One build met a target as old as its json and its schema and left it, and
\* met a target older than the schema alone and invoked the compiler.
C1_Witness ==
    \E i, j \in 1..Len(trace) :
        /\ trace[i].outcome = "fresh"
        /\ trace[i].tgt = trace[i].src
        /\ trace[i].tgt = trace[i].sch
        /\ Invoked(trace[j])
        /\ trace[j].tgt >= trace[j].src
        /\ trace[j].tgt < trace[j].sch

\* C2: a build that follows a successful build, with no file changed between
\* the two, invokes the compiler for no json.
C2_Idempotent ==
    (pc = "done" /\ result = "ok" /\ base.op = "build_ok" /\ base.changed = {})
        => \A i \in 1..Len(trace) : ~Invoked(trace[i])

\* C3: after a compiler invocation that failed (no launch, or an exit status
\* other than 0) the build visits no further json and has ended in a BuildError.
C3_FailFast ==
    \A i \in 1..Len(trace) :
        Failed(trace[i]) =>
            /\ i = Len(trace)
            /\ pc = "done"
            /\ result = "BuildError"
            /\ error.type = "BuildError"
            /\ queue = <<>>

\* A build ended on a compiler that exited with 2 while a listed json of a
\* later category was still unvisited.
C3_Witness ==
    /\ pc = "done"
    /\ result = "BuildError"
    /\ trace # <<>>
    /\ trace[Len(trace)].outcome = "exited"
    /\ trace[Len(trace)].returncode = 2
    /\ \E p \in Sources(files) :
          /\ Enumerated(p)
          /\ p \notin Visited
          /\ dirname(p) # dirname(trace[Len(trace)].json)

\* The extension the ordered chain of the specification gives the path p.
ChainExtension(p) ==
    IF EndsWith(p, <<"config", ".json">>) THEN ".amconfig"
    ELSE IF EndsWith(p, <<"buses", ".json">>) THEN ".ambus"
    ELSE IF Contains(p, <<"soundbanks">>) THEN ".ambank"
    ELSE IF Contains(p, <<"collections">>) THEN ".amcollection"
    ELSE IF Contains(p, <<"sounds">>) THEN ".amsound"
    ELSE IF Contains(p, <<"events">>) THEN ".amevent"
    ELSE IF Contains(p, <<"pipelines">>) THEN ".ampipeline"
    ELSE IF Contains(p, <<"attenuators">>) THEN ".amattenuation"
    ELSE IF Contains(p, <<"switches">>) THEN ".amswitch"
    ELSE IF Contains(p, <<"switch_containers">>) THEN ".amswitchcontainer"
    ELSE IF Contains(p, <<"rtpc">>) THEN ".amrtpc"
    ELSE IF Contains(p, <<"environments">>) THEN ".amenv"
    ELSE ".ambin"

\* C4: the output path of a listed json ends in the extension of the first
\* rule that matches in the order config.json, buses.json, soundbanks,
\* collections, sounds, events, pipelines, attenuators, switches,
\* switch_containers, rtpc, environments, and in .ambin when none matches.
C4_FirstRuleOfChain ==
    mapped # <<>> => mapped[Len(mapped)] = ChainExtension(path)

\* C5: the output path of the listed json projectRoot/<rel>.json is
\* buildRoot/<rel>.<ext>: the part between the leading project root and the
\* final ".json" is kept as it is.
C5_RelativePathKept ==
    mapped # <<>> =>
        mapped = build_path
                 \o SubSeq(path, Len(project_path) + 1, Len(path) - 1)
                 \o <<mapped[Len(mapped)]>>

\* C6: when, after a successful build, one source file alone was changed and
\* is now newer than its target, the next build invokes the compiler once, for
\* that file.
C6_OneInvocation ==
    (pc = "done" /\ result = "ok" /\ base.op = "build_ok")
        => \A f \in start.newer :
               base.changed = {f} =>
                   /\ Invocations(f) = 1
                   /\ \A i \in 1..Len(trace) : Invoked(trace[i]) => trace[i].json = f

\* The directories of the categories, and the json files that lie at a
\* category's source location.
CategoryDirs == {"soundbanks", "collections", "sounds", "events", "pipelines",
                 "attenuators", "switches", "switch_containers", "rtpc", "effects",
                 "environments"}

UnderCategory(p) ==
    /\ StartsWith(p, project_path \o <<"/">>)
    /\ EndsWith(p, <<".json">>)
    /\ \/ /\ Len(p) > Len(project_path) + 2
          /\ p[Len(project_path) + 2] \in CategoryDirs
          /\ p[Len(project_path) + 3] = "/"
       \/ /\ LastSlash(p, Len(p)) = Len(project_path) + 1
          /\ \/ EndsWith(p, <<".", "config", ".json">>)
             \/ EndsWith(p, <<".", "buses", ".json">>)

\* C7: a build in which no invocation fails invokes the compiler exactly once
\* for every json at a category's source location whose target was missing.
C7_EveryCategoryCovered ==
    (pc = "done" /\ result = "ok")
        => \A p \in start.absent : UnderCategory(p) => Invocations(p) = 1

\* The target clean and build compute for a json.
TargetOf(p) == processed_json_path(p, project_path, build_path)

\* C8: when clean has run, no file is left at the target of any json the
\* project held that a build lists.
C8_CleanRemovesTargets ==
    (pc = "idle" /\ since.op = "clean" /\ since.changed = {})
        => \A p \in since.tree : Enumerated(p) => ~isfile(files, TargetOf(p))

\* Clean removed a target and found the target of another listed json missing.
C8_Witness ==
    /\ pc = "idle"
    /\ since.op = "clean"
    /\ since.changed = {}
    /\ since.removed # {}
    /\ \E p \in since.tree : Enumerated(p) /\ TargetOf(p) \notin since.removed

\* The files below the build directory.
BuildFiles(fs) == {p \in DOMAIN fs : StartsWith(p, build_path \o <<"/">>)}

\* The loops of the build over units from the files fs at time t, every
\* compiler invocation succeeding.
RECURSIVE build_all(_, _, _)
build_all(fs, units, t) ==
    IF units = <<>> THEN fs
    ELSE LET u == Head(units)
             target == TargetOf(u.json)
             decision == rebuild_decision(fs, u.json, u.schema, target)
         IN
         IF decision = "raise" THEN fs
         ELSE build_all(IF decision = "convert"
                        THEN WriteFile(fs, artifact_path(dirname(target), u.json), t)
                        ELSE fs,
                        Tail(units), t)

\* What a successful build of the project tree leaves below the build
\* directory when it starts with nothing there.
PristineBuild(tree) ==
    LET fs == [p \in tree \cup (DOMAIN files \cap SchemaFiles) |-> 0] IN
    BuildFiles(build_all(fs, Units(get_conversion_data(fs, <<schema_path>>)), 0))

\* C9: after clean and then a successful build, the files below the build
\* directory, the targets among them, are those a successful build of the same
\* project tree produces in an empty build directory.
C9_CleanThenBuild ==
    (pc = "done" /\ result = "ok" /\ base.op = "clean" /\ base.changed = {})
        => BuildFiles(files) = PristineBuild(base.tree)

\* A successful build followed a clean that had removed targets, and wrote them.
C9_Witness ==
    /\ pc = "done"
    /\ result = "ok"
    /\ base.op = "clean"
    /\ base.changed = {}
    /\ base.removed # {}
    /\ base.removed \subseteq DOMAIN files

\* C10: a build that a compiler invocation ended has raised one BuildError
\* with the argv of that invocation; its error_code is the exit status of a
\* compiler that exited, and 1 with the message of the OSError for a compiler
\* that did not start.  No other build raised a BuildError.
C10_ErrorCarriesOutcome ==
    /\ \A i \in 1..Len(trace) :
          (pc = "done" /\ Failed(trace[i])) =>
              /\ error.type = "BuildError"
              /\ error.argv = <<flatc_path, <<"-o">>, dirname(trace[i].target),
                                <<"-I">>, schema_path, <<"-b">>, trace[i].schema,
                                trace[i].json>>
              /\ trace[i].outcome = "exited" =>
                    /\ error.error_code = trace[i].returncode
                    /\ error.error_code # 0
              /\ trace[i].outcome = "launch_failed" =>
                    /\ error.error_code = 1
                    /\ error.message = OSErrorMessage
    /\ error.type = "BuildError" => (trace # <<>> /\ Failed(trace[Len(trace)]))

\* A build ended on a compiler that exited with 2, and its error says so.
C10_Witness ==
    /\ pc = "done"
    /\ error.type = "BuildError"
    /\ error.error_code = 2
    /\ trace[Len(trace)].outcome = "exited"

\* The positions of find_paths whose directory holds find_name as a regular
\* file.
FindHits == {i \in 1..Len(find_paths) : isfile(files, join(find_paths[i], find_name))}

\* C11: find_in_paths returns the directory joined with the name for the
\* first directory of the list that holds the name as a regular file, and the
\* name itself when no directory of the list does, the empty list included.
C11_FirstHitOrName ==
    found # <<>> =>
        IF FindHits = {} THEN found = find_name
        ELSE \E i \in FindHits :
                /\ \A j \in FindHits : i <= j
                /\ found = join(find_paths[i], find_name)

\* find_in_paths passed a directory where the name is a directory, and
\* returned the first of two hits.
C11_Witness ==
    /\ found # <<>>
    /\ Cardinality({join(find_paths[i], find_name) : i \in FindHits}) = 2
    /\ 1 \notin FindHits
    /\ join(find_paths[1], find_name) \in dirs
    /\ found = join(find_paths[2], find_name)

\* The directory d and every directory above it exist.
ExistsWithParents(d) ==
    \A k \in 1..Len(d) :
        (d[k] # "/" /\ (k = Len(d) \/ d[k + 1] = "/")) => SubSeq(d, 1, k) \in dirs

\* C12: whenever the build has handed a json to the compiler, the output
\* directory of the argv is the directory of the json's target, and it exists
\* with every directory above it.
C12_DirectoryBeforeWrite ==
    /\ pc = "wait" =>
          /\ proc[3] = dirname(trace[Len(trace)].target)
          /\ ExistsWithParents(proc[3])
    /\ \A i \in 1..Len(trace) :
          Invoked(trace[i]) => ExistsWithParents(dirname(trace[i].target))

\* The first build of a project waits for a compiler it gave a directory two
\* levels deep, which no run before it can have created.
C12_Witness ==
    /\ pc = "wait"
    /\ base.op = "none"
    /\ BuildFiles(files) = {}
    /\ Len(proc[3]) > Len(build_path)
    /\ proc[3] \in dirs

\* The place of the json p in the conversion data cd: the index of its
\* category and its index among the input files of that category.
PlaceOf(cd, p) ==
    CHOOSE place \in {<<c, k>> : c \in 1..Len(cd), k \in 1..MaxFiles + 1} :
        /\ place[2] <= Len(cd[place[1]].input_files)
        /\ cd[place[1]].input_files[place[2]] = p

\* place a comes before place b in the two loops.
Before(a, b) == a[1] < b[1] \/ (a[1] = b[1] /\ a[2] < b[2])

\* C13: a build waits for a compiler exactly while the last json it visited
\* is running, every json visited before the last was found fresh or has
\* exited with status 0, and the jsons are visited in the order of the
\* categories of get_conversion_data and, within one category, in the order
\* of its input files.
C13_SequentialInOrder ==
    LET cd == get_conversion_data(files, <<schema_path>>) IN
    /\ pc = "wait" <=> (trace # <<>> /\ trace[Len(trace)].outcome = "running")
    /\ pc = "wait" => proc # <<>> /\ proc[8] = trace[Len(trace)].json
    /\ pc # "wait" => proc = <<>>
    /\ \A i \in 1..Len(trace) :
          i < Len(trace) =>
              \/ trace[i].outcome = "fresh"
              \/ (trace[i].outcome = "exited" /\ trace[i].returncode = 0)
    /\ \A i, j \in 1..Len(trace) :
          i < j => Before(PlaceOf(cd, trace[i].json), PlaceOf(cd, trace[j].json))

\* A build waits for the compiler of a second json after the compiler of the
\* first, of the same category, has exited with 0.
C13_Witness ==
    /\ pc = "wait"
    /\ Len(trace) = 2
    /\ trace[1].outcome = "exited"
    /\ trace[1].returncode = 0
    /\ dirname(trace[1].json) = dirname(trace[2].json)

\* The artifact of the entry e of trace.
ArtifactOf(e) == artifact_path(dirname(e.target), e.json)

\* A step of a running build.
InBuild == pc \in {"build", "wait"}

\* C14: when a build has ended in a BuildError, the artifact of every
\* compiler that exited with 0 earlier in that build exists with the time it
\* was written at; and no step of a build, successful or not, removes a file
\* or a directory or changes a source file or a schema file.
C14_NoRollback ==
    /\ [](\A i \in 1..Len(trace) :
            (/\ pc = "done"
             /\ result = "BuildError"
             /\ trace[i].outcome = "exited"
             /\ trace[i].returncode = 0)
                => /\ isfile(files, ArtifactOf(trace[i]))
                   /\ files[ArtifactOf(trace[i])] = now)
    /\ [][InBuild =>
            /\ DOMAIN files \subseteq DOMAIN files'
            /\ dirs \subseteq dirs'
            /\ \A p \in DOMAIN files \cap (SourcePool \cup SchemaFiles) :
                  files'[p] = files[p]]_vars

\* A build ended in a BuildError on its second json, and the artifact the
\* first compiler created is there.
C14_Witness ==
    /\ pc = "done"
    /\ result = "BuildError"
    /\ Len(trace) = 2
    /\ trace[1].outcome = "exited"
    /\ trace[1].returncode = 0
    /\ trace[1].tgt = -1
    /\ isfile(files, ArtifactOf(trace[1]))

\* C15: a run of clean removes only files that existed at the target of a
\* json the build lists; it leaves every other file, the sources and the
\* schemas among them, with its modification time, leaves the directories as
\* they are, starts no compiler and ends without an error.
C15_CleanFrame ==
    [][Clean =>
        /\ dirs' = dirs
        /\ DOMAIN files' \subseteq DOMAIN files
        /\ \A p \in DOMAIN files' : files'[p] = files[p]
        /\ \A p \in DOMAIN files \ DOMAIN files' :
              \E q \in DOMAIN files : Enumerated(q) /\ p = TargetOf(q)
        /\ DOMAIN files \cap (SourcePool \cup SchemaFiles) \subseteq DOMAIN files'
        /\ UNCHANGED <<pc, queue, proc, trace, result, error, now>>]_vars

\* Clean has removed a target and left the directory it was in, now empty.
C15_Witness ==
    /\ pc = "idle"
    /\ since.op = "clean"
    /\ \E p \in since.removed :
          /\ dirname(p) \in dirs
          /\ \A q \in DOMAIN files : dirname(q) # dirname(p)

\* C16: when a successful build follows a successful build, the one change in
\* between being that the schema file of one category was touched and is now
\* newer than every target, the second build invokes the compiler once for
\* each json of that category and for no json of another category.
C16_SchemaRebuildsItsCategory ==
    (pc = "done" /\ result = "ok" /\ base.op = "build_ok")
        => \A s \in SchemaFiles :
               (/\ base.changed = {s}
                /\ isfile(files, s)
                /\ \A i \in 1..Len(trace) : trace[i].tgt < files[s])
                   => \A i \in 1..Len(trace) :
                          IF trace[i].schema = s
                          THEN Invocations(trace[i].json) = 1
                          ELSE ~Invoked(trace[i])

\* C17: a build that has ended has either completed or raised the BuildError
\* of a compiler that did not start or exited with a status other than 0;
\* the test for staleness ends no build.
C17_OnlyCompilerFailures ==
    pc = "done" =>
        \/ result = "ok"
        \/ /\ result = "BuildError"
           /\ trace # <<>>
           /\ Failed(trace[Len(trace)])

\* C18: the jsons one build visits have targets that differ from one another.
C18_TargetsInjective ==
    \A i, j \in 1..Len(trace) :
        trace[i].json # trace[j].json => trace[i].target # trace[j].target

\* C19: the jsons one build visits with the same schema have targets with
\* the same extension.
C19_SchemaAndExtensionAgree ==
    \A i, j \in 1..Len(trace) :
        trace[i].schema = trace[j].schema =>
            trace[i].target[Len(trace[i].target)] = trace[j].target[Len(trace[j].target)]

====
